---- MODULE Spec2Model ----
(***************************************************************************)
(* Model of the news analysis pipeline: NewsAnalysisPipeline.run           *)
(* (pipeline.py), an async generator that yields progress events, and its  *)
(* consumer analyze_news.event_generator (api.py), which forwards the      *)
(* events to a client that may disconnect.                                 *)
(*                                                                         *)
(* The generator runs only while a consumer awaits its next event          *)
(* (running = TRUE).  Each action is one segment of the generator between  *)
(* two suspension points (a yield or an await).                            *)
(*                                                                         *)
(* Three parts are also modelled on their own, each with its own           *)
(* specification: NewsFetcher.fetch_news (SpecFetch), the projection of    *)
(* the records to the result entries (SpecProject), and the extractor of   *)
(* structured model responses (SpecExtract).                               *)
(***************************************************************************)
EXTENDS Integers, Sequences, FiniteSets, TLC

VARIABLES
    pc,                     \* position of the generator run()
    running,                \* a consumer awaits __anext__ of run()
    articles,               \* pipeline.py:43
    idx,                    \* loop index of the two for loops (enumerate(.., 1))
    analysis_results,       \* pipeline.py:58
    final_articles,         \* pipeline.py:77
    validated_results_full, \* pipeline.py:78
    inflight,               \* the external call the generator awaits, or "none"
    events,                 \* the events run() has yielded, in order
    hist,                   \* history: every yield, call, return, sleep, disconnect
    api_pc,                 \* position of event_generator (api.py)
    disconnected,           \* what request.is_disconnected() would answer
    forwarded,              \* the events event_generator has yielded, in order
    count,                  \* the argument count of run(), pipeline.py:28
    fetch_pc,               \* position of fetch_news (news_fetcher.py)
    num_articles,           \* the argument num_articles of fetch_news
    requests,               \* the status of each GET fetch_news has issued
    response,               \* news_fetcher.py:64, 70
    cleaned_articles,       \* news_fetcher.py:84
    returned,               \* what fetch_news has returned, once it has
    extract_pc,             \* position of the structured-response extractor
    text,                   \* the model output handed to the extractor
    extracted               \* what the extractor has given for text

vars == <<pc, running, articles, idx, analysis_results, final_articles,
          validated_results_full, inflight, events, hist, api_pc,
          disconnected, forwarded, count, fetch_pc, num_articles, requests,
          response, cleaned_articles, returned, extract_pc, text, extracted>>

pipeVars == <<pc, running, articles, idx, analysis_results, final_articles,
              validated_results_full, inflight, events>>

dataVars == <<articles, idx, analysis_results, final_articles,
              validated_results_full>>

apiVars == <<api_pc, disconnected, forwarded>>

fetchVars == <<fetch_pc, num_articles, requests, response, cleaned_articles,
               returned>>

extractVars == <<extract_pc, text, extracted>>

\* What no step of run() and of event_generator changes: the argument of
\* run(), and the state of a call of fetch_news and of the extractor taken on
\* their own.
fixedVars == <<count, fetchVars, extractVars>>

\* Largest number of articles the fetch collaborator returns in the model.
MaxArticles == 2

-----------------------------------------------------------------------------
(* Values *)

\* JSON values of a model reply: a string, or null (a value without .lower()).
Str(s) == <<"str", s>>
JsonNull == <<"null", "">>
IsStr(v) == v[1] = "str"

\* str.lower() on the sentiment texts of the model.
LowerText(s) ==
    CASE s = "Positive" -> "positive"
      [] s = "Negative" -> "negative"
      [] OTHER -> s

\* An article as fetch_news builds it; i identifies the provider's article.
Article(i) == [title |-> <<"title", i>>, url |-> <<"url", i>>]

ArticleIds == 1..MaxArticles

RECURSIVE SeqsUpTo(_, _)
SeqsUpTo(S, n) ==
    IF n = 0 THEN {<<>>}
    ELSE LET shorter == SeqsUpTo(S, n - 1)
         IN  shorter \cup {Append(s, x) : s \in shorter, x \in S}

Increasing(s) == \A i, j \in 1..Len(s) : i < j => s[i] < s[j]

\* Line 100 of news_fetcher.py without the slice.
Truncate_None(s, n) == s

\* s[:n] for a positive n, news_fetcher.py:100.
Truncate(s, n) == SubSeq(s, 1, IF Len(s) < n THEN Len(s) ELSE n)

\* What fetch_news can have collected before the slice of line 100: the
\* provider's articles 1..MaxArticles in the provider's order, without those
\* it skips (lines 85-88); possibly none.
FetchOutputs ==
    {[k \in 1..Len(s) |-> Article(s[k])] :
        s \in {t \in SeqsUpTo(ArticleIds, MaxArticles) : Increasing(t)}}

-----------------------------------------------------------------------------
(* The model collaborators LLMAnalyzer and LLMValidator *)

\* What one call to the language model can give: a JSON object with all the
\* required fields, a transport error, text that is no JSON object, or a
\* JSON object that lacks a required field.
FailureReplies == {"transport_error", "not_json", "missing_field"}
AnalysisReplies == {"complete", "complete_null"} \cup FailureReplies
ValidationReplies == {"valid", "invalid"} \cup FailureReplies

\* The error text of a degraded record: the extractor names the missing
\* fields; any other failure carries the text of its exception.
ErrorText(reply) ==
    IF reply = "missing_field" THEN "Missing required fields"
    ELSE "exception text"

\* LLMAnalyzer.analyze_article: the model's mapping, or the degraded record.
analyze_article(article, reply) ==
    CASE reply = "complete" ->
            [gist |-> <<"gist of", article.title[2]>>,
             sentiment |-> Str("Positive"), tone |-> "analytical"]
      [] reply = "complete_null" ->
            [gist |-> <<"gist of", article.title[2]>>,
             sentiment |-> JsonNull, tone |-> "analytical"]
      [] OTHER ->
            [gist |-> <<"Unable to analyze article", 0>>,
             sentiment |-> Str("neutral"), error |-> ErrorText(reply)]

\* LLMValidator.validate_analysis: the model's verdict, or the degraded record.
validate_analysis(article, analysis, reply) ==
    CASE reply = "valid" -> [is_valid |-> TRUE, notes |-> <<"model notes">>]
      [] reply = "invalid" -> [is_valid |-> FALSE, notes |-> <<"model notes">>]
      [] OTHER ->
            [is_valid |-> FALSE,
             notes |-> <<"Validation failed", "due to error", ErrorText(reply)>>,
             error |-> ErrorText(reply)]

-----------------------------------------------------------------------------
(* Events *)

NoPayload == <<>>

\* NewsAnalysisPipeline._create_log_event; i/n are the numbers a per-article
\* message carries (0 when the message carries none).
_create_log_event(msg, step, i, n) ==
    [event |-> "log", step |-> step, msg |-> msg, idx |-> i, total |-> n,
     payload |-> NoPayload]

EmptyFetchError ==
    [event |-> "error", step |-> "", msg |-> "No articles found or API error.",
     idx |-> 0, total |-> 0, payload |-> NoPayload]

InternalError ==
    [event |-> "error", step |-> "", msg |-> "Internal Server Error",
     idx |-> 0, total |-> 0, payload |-> NoPayload]

ResultEvent(final) ==
    [event |-> "result", step |-> "", msg |-> "", idx |-> 0, total |-> 0,
     payload |-> final]

FullResultEvent(full, raw) ==
    [event |-> "full_result", step |-> "", msg |-> "", idx |-> 0, total |-> 0,
     payload |-> <<full, raw>>]

CloseEvent ==
    [event |-> "close", step |-> "", msg |-> "Stream closed", idx |-> 0,
     total |-> 0, payload |-> NoPayload]

\* dict.get(key, default)
Get(d, key, default) == IF key \in DOMAIN d THEN d[key] ELSE default

\* The .lower() of line 98 raises AttributeError on a value that is no string.
ProjectionRaises(analysis) == ~IsStr(Get(analysis, "sentiment", Str("neutral")))

\* Lines 95-103 reading the note under a key the validation never has.
FinalArticle_WrongNoteKey(i, result, validation) ==
    [id |-> i,
     title |-> result.article.title,
     sentiment |-> LowerText(Get(result.analysis, "sentiment", Str("neutral"))[2]),
     validationPassed |-> Get(validation, "is_valid", FALSE),
     validationNote |-> Get(validation, "note", <<>>),
     summary |-> Get(result.analysis, "gist", <<"", 0>>),
     url |-> Get(result.article, "url", <<"#", 0>>)]

\* Lines 95-103 without the .lower() of line 98.
FinalArticle_NoLower(i, result, validation) ==
    [id |-> i,
     title |-> result.article.title,
     sentiment |-> Get(result.analysis, "sentiment", Str("neutral"))[2],
     validationPassed |-> Get(validation, "is_valid", FALSE),
     validationNote |-> Get(validation, "notes", <<>>),
     summary |-> Get(result.analysis, "gist", <<"", 0>>),
     url |-> Get(result.article, "url", <<"#", 0>>)]

\* The frontend entry built at lines 95-103.
FinalArticle(i, result, validation) ==
    [id |-> i,
     title |-> result.article.title,
     sentiment |-> LowerText(Get(result.analysis, "sentiment", Str("neutral"))[2]),
     validationPassed |-> Get(validation, "is_valid", FALSE),
     validationNote |-> Get(validation, "notes", <<>>),
     summary |-> Get(result.analysis, "gist", <<"", 0>>),
     url |-> Get(result.article, "url", <<"#", 0>>)]

\* Lines 95-103 appending only the articles whose validation did not fail.
AppendFinal_SkipDegraded(final, i, result, validation) ==
    IF "error" \in DOMAIN validation THEN final
    ELSE Append(final, FinalArticle(i, result, validation))

\* final_articles.append({...}), lines 95-103: one entry per validated
\* article, whatever its records are.
AppendFinal(final, i, result, validation) ==
    Append(final, FinalArticle(i, result, validation))

-----------------------------------------------------------------------------
(* History entries *)

HEmit(e) == [t |-> "emit", a |-> e.event, b |-> e.step, k |-> e.idx, arg |-> <<>>]
HCall(what, i, args) == [t |-> "call", a |-> what, b |-> "", k |-> i, arg |-> args]
HRet(what, i) == [t |-> "ret", a |-> what, b |-> "", k |-> i, arg |-> <<>>]
HRaise(what, i) == [t |-> "raise", a |-> what, b |-> "", k |-> i, arg |-> <<>>]
HSleep == [t |-> "sleep", a |-> "", b |-> "", k |-> 0, arg |-> <<>>]
HDisconnect == [t |-> "disconnect", a |-> "", b |-> "", k |-> 0, arg |-> <<>>]
HSeen == [t |-> "seen", a |-> "", b |-> "", k |-> 0, arg |-> <<>>]

-----------------------------------------------------------------------------
(* NewsAnalysisPipeline.run, pipeline.py:28-134 *)

\* No response, no return value yet.
None == <<"none">>

\* No call of fetch_news taken on its own.
FetchIdle ==
    /\ fetch_pc = "idle"
    /\ num_articles = 0
    /\ requests = <<>>
    /\ response = None
    /\ cleaned_articles = <<>>
    /\ returned = None

\* No call of the extractor taken on its own.
ExtractIdle ==
    /\ extract_pc = "idle"
    /\ text = <<>>
    /\ extracted = None

\* run() and event_generator before their first step.
PipelineStart ==
    /\ pc = "init"
    /\ running = FALSE
    /\ articles = <<>>
    /\ idx = 0
    /\ analysis_results = <<>>
    /\ final_articles = <<>>
    /\ validated_results_full = <<>>
    /\ inflight = "none"
    /\ events = <<>>
    /\ hist = <<>>
    /\ api_pc = "next"
    /\ disconnected = FALSE
    /\ forwarded = <<>>

\* run(topic, count) with a positive count, not started.
Init ==
    /\ PipelineStart
    /\ count \in 1..MaxArticles
    /\ FetchIdle
    /\ ExtractIdle

\* yield e: the event goes to the consumer and the generator is suspended
\* until the consumer asks for the next event.
Yield(e, next) ==
    /\ running
    /\ events' = Append(events, e)
    /\ hist' = Append(hist, HEmit(e))
    /\ running' = FALSE
    /\ pc' = next

\* await asyncio.sleep(..)
Sleep(next) ==
    /\ running
    /\ hist' = Append(hist, HSleep)
    /\ pc' = next
    /\ UNCHANGED <<running, events>>

\* A loop that stops one element short.
LoopHead_OffByOne(i, xs, body, exit) == IF i < Len(xs) THEN body ELSE exit

\* The head of `for idx, x in enumerate(xs, 1)`: the body for element i, or
\* the statement after the loop.
LoopHead(i, xs, body, exit) == IF i <= Len(xs) THEN body ELSE exit

\* line 36
RunInit ==
    /\ pc = "init"
    /\ Yield(_create_log_event("Initializing pipeline", "fetch", 0, 0), "sleep_init")
    /\ UNCHANGED <<dataVars, inflight, apiVars, fixedVars>>

\* line 37
RunSleepInit ==
    /\ pc = "sleep_init"
    /\ Sleep("connecting")
    /\ UNCHANGED <<dataVars, inflight, apiVars, fixedVars>>

\* line 40
RunConnecting ==
    /\ pc = "connecting"
    /\ Yield(_create_log_event("Connecting to NewsAPI", "fetch", 0, 0), "fetch_call")
    /\ UNCHANGED <<dataVars, inflight, apiVars, fixedVars>>

\* line 43: the call is issued
\* Line 43 run ahead of the consumer, as a task started at once would.
FetchCall_Eager ==
    /\ pc = "fetch_call"
    /\ inflight' = "fetch"
    /\ hist' = Append(hist, HCall("fetch", 0, <<>>))
    /\ pc' = "fetch_wait"
    /\ UNCHANGED <<dataVars, running, events, apiVars, fixedVars>>

FetchCall ==
    /\ pc = "fetch_call"
    /\ running
    /\ inflight' = "fetch"
    /\ hist' = Append(hist, HCall("fetch", 0, <<>>))
    /\ pc' = "fetch_wait"
    /\ UNCHANGED <<dataVars, running, events, apiVars, fixedVars>>

\* Line 45 without the test for an empty list.
AfterFetch_NoCheck(fetched) == "retrieved"

\* What follows the fetch: lines 45-50 on an empty list, line 52 otherwise.
AfterFetch(fetched) == IF fetched = <<>> THEN "empty_error" ELSE "retrieved"

\* line 43: the call returns a list, cut to count articles; the history
\* keeps how many articles there were before the cut.
FetchReturn ==
    /\ pc = "fetch_wait"
    /\ running
    /\ \E cleaned \in FetchOutputs :
          LET fetched == Truncate(cleaned, count)
          IN  /\ articles' = fetched
              /\ pc' = AfterFetch(fetched)
              /\ hist' = Append(hist, HRet("fetch", Len(cleaned)))
    /\ inflight' = "none"
    /\ UNCHANGED <<idx, analysis_results, final_articles, validated_results_full,
                   running, events, apiVars, fixedVars>>

\* line 43: the call raises; control goes to the handler of line 129
FetchRaise ==
    /\ pc = "fetch_wait"
    /\ running
    /\ inflight' = "none"
    /\ hist' = Append(hist, HRaise("fetch", 0))
    /\ pc' = "handler"
    /\ UNCHANGED <<dataVars, running, events, apiVars, fixedVars>>

\* Lines 46-49 without the return of line 50.
RunEmptyError_NoReturn ==
    /\ pc = "empty_error"
    /\ Yield(EmptyFetchError, "retrieved")
    /\ UNCHANGED <<dataVars, inflight, apiVars, fixedVars>>

\* lines 46-49
RunEmptyError ==
    /\ pc = "empty_error"
    /\ Yield(EmptyFetchError, "end")
    /\ UNCHANGED <<dataVars, inflight, apiVars, fixedVars>>

\* line 52
RunRetrieved ==
    /\ pc = "retrieved"
    /\ Yield(_create_log_event("Retrieved articles", "fetch", 0, Len(articles)),
             "sleep_retrieved")
    /\ UNCHANGED <<dataVars, inflight, apiVars, fixedVars>>

\* line 53
RunSleepRetrieved ==
    /\ pc = "sleep_retrieved"
    /\ Sleep("start_analysis")
    /\ UNCHANGED <<dataVars, inflight, apiVars, fixedVars>>

\* lines 56-60
RunStartAnalysis ==
    /\ pc = "start_analysis"
    /\ Yield(_create_log_event("Starting LLM Analysis (Stage 1)", "analyze", 0, 0),
             LoopHead(1, articles, "analyze_log", "analysis_complete"))
    /\ analysis_results' = <<>>
    /\ idx' = 1
    /\ UNCHANGED <<articles, final_articles, validated_results_full, inflight,
                   apiVars, fixedVars>>

\* line 61
RunAnalyzeLog ==
    /\ pc = "analyze_log"
    /\ Yield(_create_log_event("Analyzing article", "analyze", idx, Len(articles)),
             "analyze_call")
    /\ UNCHANGED <<dataVars, inflight, apiVars, fixedVars>>

\* line 64: the call is issued
\* Line 64 without its await: the call is started and the loop goes on to
\* the next article.
AnalyzeCall_NoAwait ==
    /\ pc = "analyze_call"
    /\ running
    /\ inflight' = "analyze"
    /\ hist' = Append(hist, HCall("analyze", idx, <<articles[idx]>>))
    /\ pc' = LoopHead(idx + 1, articles, "analyze_log", "analysis_complete")
    /\ idx' = idx + 1
    /\ UNCHANGED <<articles, analysis_results, final_articles,
                   validated_results_full, running, events, apiVars, fixedVars>>

AnalyzeCall ==
    /\ pc = "analyze_call"
    /\ running
    /\ inflight' = "analyze"
    /\ hist' = Append(hist, HCall("analyze", idx, <<articles[idx]>>))
    /\ pc' = "analyze_wait"
    /\ UNCHANGED <<dataVars, running, events, apiVars, fixedVars>>

\* Lines 64-70 treating a degraded analysis as fatal.
AfterAnalysis_AbortOnError(analysis) ==
    IF "error" \in DOMAIN analysis THEN "handler" ELSE "analyze_sleep"

\* lines 64-70: whatever record the analysis returned, the loop goes on to
\* the delay of line 70; the record is not inspected.
AfterAnalysis(analysis) == "analyze_sleep"

\* lines 64-68: the call returns and its result is appended
AnalyzeReturn ==
    /\ pc = "analyze_wait"
    /\ running
    /\ \E reply \in AnalysisReplies :
          LET analysis == analyze_article(articles[idx], reply)
          IN  /\ analysis_results' =
                     Append(analysis_results,
                            [article |-> articles[idx], analysis |-> analysis])
              /\ pc' = AfterAnalysis(analysis)
    /\ inflight' = "none"
    /\ hist' = Append(hist, HRet("analyze", idx))
    /\ UNCHANGED <<articles, idx, final_articles, validated_results_full,
                   running, events, apiVars, fixedVars>>

\* Line 64 outside the try block: the exception leaves the generator.
AnalyzeRaise_Propagates ==
    /\ pc = "analyze_wait"
    /\ running
    /\ inflight' = "none"
    /\ hist' = Append(hist, HRaise("analyze", idx))
    /\ pc' = "done"
    /\ running' = FALSE
    /\ UNCHANGED <<dataVars, events, apiVars, fixedVars>>

\* line 64: the call raises
AnalyzeRaise ==
    /\ pc = "analyze_wait"
    /\ running
    /\ inflight' = "none"
    /\ hist' = Append(hist, HRaise("analyze", idx))
    /\ pc' = "handler"
    /\ UNCHANGED <<dataVars, running, events, apiVars, fixedVars>>

\* Line 70 with a loop that leaves one article too early.
\* The loop of line 60 without the delay of line 70.
RunAnalyzeSleep_NoDelay ==
    /\ pc = "analyze_sleep"
    /\ running
    /\ pc' = LoopHead(idx + 1, articles, "analyze_log", "analysis_complete")
    /\ idx' = idx + 1
    /\ UNCHANGED <<articles, analysis_results, final_articles,
                   validated_results_full, inflight, running, events, hist,
                   apiVars, fixedVars>>

RunAnalyzeSleep_ExitEarly ==
    /\ pc = "analyze_sleep"
    /\ Sleep(LoopHead(idx + 2, articles, "analyze_log", "analysis_complete"))
    /\ idx' = idx + 1
    /\ UNCHANGED <<articles, analysis_results, final_articles,
                   validated_results_full, inflight, apiVars, fixedVars>>

\* line 70, then the head of the loop of line 60
RunAnalyzeSleep ==
    /\ pc = "analyze_sleep"
    /\ Sleep(LoopHead(idx + 1, articles, "analyze_log", "analysis_complete"))
    /\ idx' = idx + 1
    /\ UNCHANGED <<articles, analysis_results, final_articles,
                   validated_results_full, inflight, apiVars, fixedVars>>

\* line 72
RunAnalysisComplete ==
    /\ pc = "analysis_complete"
    /\ Yield(_create_log_event("Analysis stage 1 complete", "analyze", 0, 0),
             "start_validation")
    /\ UNCHANGED <<dataVars, inflight, apiVars, fixedVars>>

\* lines 75-80
RunStartValidation ==
    /\ pc = "start_validation"
    /\ Yield(_create_log_event("Starting LLM Validation (Stage 2)", "validate", 0, 0),
             LoopHead(1, analysis_results, "validate_log", "validated"))
    /\ final_articles' = <<>>
    /\ validated_results_full' = <<>>
    /\ idx' = 1
    /\ UNCHANGED <<articles, analysis_results, inflight, apiVars, fixedVars>>

\* line 81
RunValidateLog ==
    /\ pc = "validate_log"
    /\ Yield(_create_log_event("Validating article", "validate", idx,
                               Len(analysis_results)),
             "validate_call")
    /\ UNCHANGED <<dataVars, inflight, apiVars, fixedVars>>

\* Lines 83-86 walking the analysis results from the end.
ValidateCall_Reversed ==
    /\ pc = "validate_call"
    /\ running
    /\ inflight' = "validate"
    /\ hist' = Append(hist,
           HCall("validate", idx,
                 <<analysis_results[Len(analysis_results) + 1 - idx].article,
                   analysis_results[Len(analysis_results) + 1 - idx].analysis>>))
    /\ pc' = "validate_wait"
    /\ UNCHANGED <<dataVars, running, events, apiVars, fixedVars>>

\* lines 83-86: the call is issued
ValidateCall ==
    /\ pc = "validate_call"
    /\ running
    /\ inflight' = "validate"
    /\ hist' = Append(hist, HCall("validate", idx,
                                  <<analysis_results[idx].article,
                                    analysis_results[idx].analysis>>))
    /\ pc' = "validate_wait"
    /\ UNCHANGED <<dataVars, running, events, apiVars, fixedVars>>

\* lines 83-103: the call returns, the full record is appended, and the
\* frontend entry is built and appended unless building it raises.
ValidateReturn ==
    /\ pc = "validate_wait"
    /\ running
    /\ \E reply \in ValidationReplies :
          LET result == analysis_results[idx]
              validation == validate_analysis(result.article, result.analysis, reply)
          IN  /\ validated_results_full' =
                     Append(validated_results_full,
                            [article |-> result.article,
                             analysis |-> result.analysis,
                             validation |-> validation])
              /\ IF ProjectionRaises(result.analysis)
                 THEN /\ final_articles' = final_articles
                      /\ hist' = hist \o <<HRet("validate", idx), HRaise("project", idx)>>
                      /\ pc' = "handler"
                 ELSE /\ final_articles' = AppendFinal(final_articles, idx, result, validation)
                      /\ hist' = Append(hist, HRet("validate", idx))
                      /\ pc' = "validate_sleep"
    /\ inflight' = "none"
    /\ UNCHANGED <<articles, idx, analysis_results, running, events, apiVars,
                   fixedVars>>

\* lines 83-86: the call raises
ValidateRaise ==
    /\ pc = "validate_wait"
    /\ running
    /\ inflight' = "none"
    /\ hist' = Append(hist, HRaise("validate", idx))
    /\ pc' = "handler"
    /\ UNCHANGED <<dataVars, running, events, apiVars, fixedVars>>

\* line 104, then the head of the loop of line 80
RunValidateSleep ==
    /\ pc = "validate_sleep"
    /\ Sleep(LoopHead(idx + 1, analysis_results, "validate_log", "validated"))
    /\ idx' = idx + 1
    /\ UNCHANGED <<articles, analysis_results, final_articles,
                   validated_results_full, inflight, apiVars, fixedVars>>

\* line 106
RunValidated ==
    /\ pc = "validated"
    /\ Yield(_create_log_event("All articles validated successfully", "validate", 0, 0),
             "done_log")
    /\ UNCHANGED <<dataVars, inflight, apiVars, fixedVars>>

\* line 109
RunDoneLog ==
    /\ pc = "done_log"
    /\ Yield(_create_log_event("Pipeline complete - results ready", "done", 0, 0),
             "result")
    /\ UNCHANGED <<dataVars, inflight, apiVars, fixedVars>>

\* lines 112-115
RunResult ==
    /\ pc = "result"
    /\ Yield(ResultEvent(final_articles), "full_result")
    /\ UNCHANGED <<dataVars, inflight, apiVars, fixedVars>>

\* Lines 118-121 ending the run without the close event of lines 124-127.
RunFullResult_NoClose ==
    /\ pc = "full_result"
    /\ Yield(FullResultEvent(validated_results_full, articles), "end")
    /\ UNCHANGED <<dataVars, inflight, apiVars, fixedVars>>

\* lines 118-121
RunFullResult ==
    /\ pc = "full_result"
    /\ Yield(FullResultEvent(validated_results_full, articles), "close")
    /\ UNCHANGED <<dataVars, inflight, apiVars, fixedVars>>

\* lines 124-127
RunClose ==
    /\ pc = "close"
    /\ Yield(CloseEvent, "end")
    /\ UNCHANGED <<dataVars, inflight, apiVars, fixedVars>>

\* Lines 129-134 falling through to the close event after the error.
RunHandler_ThenClose ==
    /\ pc = "handler"
    /\ Yield(InternalError, "close")
    /\ UNCHANGED <<dataVars, inflight, apiVars, fixedVars>>

\* lines 129-134: except Exception
RunHandler ==
    /\ pc = "handler"
    /\ Yield(InternalError, "end")
    /\ UNCHANGED <<dataVars, inflight, apiVars, fixedVars>>

\* line 50, or the end of the function: the generator is exhausted
RunEnd ==
    /\ pc = "end"
    /\ running
    /\ pc' = "done"
    /\ running' = FALSE
    /\ UNCHANGED <<dataVars, inflight, events, hist, apiVars, fixedVars>>

-----------------------------------------------------------------------------
(* analyze_news.event_generator, api.py:48-62 *)

LastEvent == events[Len(events)]

\* line 51: async for asks run() for its next event
ApiNext ==
    /\ api_pc = "next"
    /\ running' = TRUE
    /\ api_pc' = "wait"
    /\ UNCHANGED <<pc, dataVars, inflight, events, hist, disconnected, forwarded,
                   fixedVars>>

\* line 51: run() is exhausted, the loop ends
ApiExhausted ==
    /\ api_pc = "wait"
    /\ ~running
    /\ pc = "done"
    /\ api_pc' = "finished"
    /\ UNCHANGED <<pipeVars, hist, disconnected, forwarded, fixedVars>>

\* Lines 52-54 with continue in the place of break.
AfterCheck_Continue(isDisconnected, e) == "next"

\* lines 52-62: where the loop body leaves event_generator: out of the
\* loop on a disconnect, else back at the head of the loop.
AfterCheck(isDisconnected, e) == IF isDisconnected THEN "broken" ELSE "next"

\* Lines 52-62 yielding the event whatever line 52 answers.
Forwards_IgnoreDisconnect(isDisconnected, e) == e.event # "full_result"

\* Lines 52-62 without the filter of lines 59-60.
Forwards_NoFilter(isDisconnected, e) == ~isDisconnected

\* lines 52-62: whether the loop body yields event e
Forwards(isDisconnected, e) == ~isDisconnected /\ e.event # "full_result"

\* lines 51-62: run() has yielded an event; the body of the loop checks
\* the connection and yields the event, skips it, or leaves the loop.
ApiCheck ==
    /\ api_pc = "wait"
    /\ ~running
    /\ pc # "done"
    /\ api_pc' = AfterCheck(disconnected, LastEvent)
    /\ forwarded' = IF Forwards(disconnected, LastEvent)
                    THEN Append(forwarded, LastEvent)
                    ELSE forwarded
    /\ hist' = IF disconnected THEN Append(hist, HSeen) ELSE hist
    /\ UNCHANGED <<pipeVars, disconnected, fixedVars>>

\* The client goes away.
Disconnect ==
    /\ ~disconnected
    /\ api_pc \notin {"broken", "finished"}
    /\ disconnected' = TRUE
    /\ hist' = Append(hist, HDisconnect)
    /\ UNCHANGED <<pipeVars, api_pc, forwarded, fixedVars>>

Next ==
    \/ RunInit \/ RunSleepInit \/ RunConnecting
    \/ FetchCall \/ FetchReturn \/ FetchRaise
    \/ RunEmptyError \/ RunRetrieved \/ RunSleepRetrieved
    \/ RunStartAnalysis \/ RunAnalyzeLog
    \/ AnalyzeCall \/ AnalyzeReturn \/ AnalyzeRaise \/ RunAnalyzeSleep
    \/ RunAnalysisComplete
    \/ RunStartValidation \/ RunValidateLog
    \/ ValidateCall \/ ValidateReturn \/ ValidateRaise \/ RunValidateSleep
    \/ RunValidated \/ RunDoneLog \/ RunResult \/ RunFullResult \/ RunClose
    \/ RunHandler \/ RunEnd
    \/ ApiNext \/ ApiExhausted \/ ApiCheck
    \/ Disconnect

Spec == Init /\ [][Next]_vars

-----------------------------------------------------------------------------
(* NewsFetcher.fetch_news, news_fetcher.py:26-112 *)

\* HTTP status "Too Many Requests", the rate-limit signal of line 67.
TooManyRequests == 429

\* The statuses of the provider's responses in the model: success, the
\* rate-limit signal, a server error.
StatusCodes == {200, TooManyRequests, 500}

\* A JSON string: its text without surrounding whitespace, and whether
\* whitespace surrounds it.
Txt(core, padded) == Str([core |-> core, pad |-> padded])
EmptyTxt == Txt(<<>>, FALSE)

\* str.strip()
Strip(v) == Txt(v[2].core, FALSE)

\* Python's truth value of a JSON value read with dict.get: None, null and
\* the empty string are false.
Truthy(v) == IsStr(v) /\ v # EmptyTxt

\* The 'source' object of a provider article, and the empty dict.
SourceDict(name) == <<"dict", [name |-> name]>>
EmptyDict == <<"dict", [k \in {} |-> k]>>

\* The i-th article of a provider response, of each kind the model has:
\* complete; with whitespace around the title; with an empty title; with a
\* null description, content or source; without the content and source keys.
RawKinds ==
    {"good", "padded", "no_title", "null_description", "null_content",
     "null_source", "absent_optional"}

RawArticle(kind, i) ==
    LET base == [title |-> Txt(<<"title", i>>, FALSE),
                 description |-> Txt(<<"description", i>>, FALSE),
                 content |-> Txt(<<"content", i>>, TRUE),
                 url |-> Txt(<<"url", i>>, FALSE),
                 publishedAt |-> Txt(<<"publishedAt", i>>, FALSE),
                 source |-> SourceDict(Txt(<<"source", i>>, FALSE))]
    IN  CASE kind = "good" -> base
          [] kind = "padded" -> [base EXCEPT !.title = Txt(<<"title", i>>, TRUE)]
          [] kind = "no_title" -> [base EXCEPT !.title = EmptyTxt]
          [] kind = "null_description" -> [base EXCEPT !.description = JsonNull]
          [] kind = "null_content" -> [base EXCEPT !.content = JsonNull]
          [] kind = "null_source" -> [base EXCEPT !.source = JsonNull]
          [] kind = "absent_optional" ->
                [k \in {"title", "description", "url", "publishedAt"} |-> base[k]]

\* The 'articles' array of a provider response: up to MaxArticles articles.
RawLists ==
    UNION {{[k \in 1..n |-> RawArticle(f[k], k)] : f \in [1..n -> RawKinds]} :
              n \in 0..MaxArticles}

\* The body of a response: text that is no JSON, an error object, or an
\* object with status 'ok' with or without an 'articles' array.
NotJson == [not_json |-> TRUE]
ErrorBodies == {NotJson, [status |-> "error"]}
Bodies ==
    ErrorBodies \cup {[status |-> "ok"]}
        \cup {[status |-> "ok", articles |-> raws] : raws \in RawLists}

\* The provider's responses: any body with status 200, an error body with
\* the other statuses.
Responses ==
    [status : {200}, body : Bodies]
        \cup [status : StatusCodes \ {200}, body : ErrorBodies]

\* What `await client.get(...)` gives: a response, or an exception.
Raise(exc) == [kind |-> "raise", exc |-> exc]
Return(value) == [kind |-> "return", value |-> value]
GetOutcomes ==
    {Raise(e) : e \in {"TimeoutException", "RequestError", "RuntimeError"}}
        \cup {Return(r) : r \in Responses}

\* Line 87: the article is skipped.
Skipped(article) ==
    ~Truthy(Get(article, "title", JsonNull))
        \/ ~Truthy(Get(article, "description", JsonNull))

\* Lines 93 and 96 raise AttributeError on a null content or source.
CleanRaises(article) ==
    \/ ~IsStr(Get(article, "content", EmptyTxt))
    \/ Get(article, "source", EmptyDict)[1] # "dict"

\* The dict of lines 90-97.
CleanedArticle(article) ==
    [title |-> Strip(article.title),
     description |-> Strip(article.description),
     content |-> Strip(Get(article, "content", EmptyTxt)),
     url |-> Get(article, "url", EmptyTxt),
     publishedAt |-> Get(article, "publishedAt", EmptyTxt),
     source |-> Get(Get(article, "source", EmptyDict)[2], "name",
                    Txt(<<"Unknown">>, FALSE))]

\* The loop of lines 84-98 over the articles left, with those cleaned so
\* far: the cleaned list, or the exception of the first article that raises.
RECURSIVE Clean(_, _)
Clean(raws, cleaned) ==
    IF raws = <<>> THEN Return(cleaned)
    ELSE IF Skipped(Head(raws)) THEN Clean(Tail(raws), cleaned)
    ELSE IF CleanRaises(Head(raws)) THEN Raise("AttributeError")
    ELSE Clean(Tail(raws), Append(cleaned, CleanedArticle(Head(raws))))

\* Lines 73-81: raise_for_status, response.json(), the test of the status
\* field; gives the 'articles' array to clean, which is empty when line 79
\* returns [] at once.
ArticlesOf(resp) ==
    IF resp.status # 200 THEN Raise("HTTPStatusError")
    ELSE IF resp.body = NotJson THEN Raise("JSONDecodeError")
    ELSE IF Get(resp.body, "status", "") # "ok" THEN Return(<<>>)
    ELSE Return(Get(resp.body, "articles", <<>>))

\* Lines 102-108 without the clause of lines 110-112.
Except_NoCatchAll(outcome) ==
    IF outcome.kind = "raise"
           /\ outcome.exc \in {"TimeoutException", "RequestError"}
    THEN Return(<<>>)
    ELSE outcome

\* The except clauses of lines 102-112 applied to what the try block gave.
Except(outcome) ==
    IF outcome.kind = "raise"
    THEN CASE outcome.exc = "TimeoutException" -> Return(<<>>)
           [] outcome.exc = "RequestError" -> Return(<<>>)
           [] OTHER -> Return(<<>>)
    ELSE outcome

\* What the history of requests keeps of one GET: the exception it raised
\* or the status of its response; Pending while it is awaited.
RequestTag(o) ==
    IF o.kind = "raise" THEN <<"raise", o.exc>> ELSE <<"status", o.value.status>>
Pending == <<"pending", 0>>

\* fetch_news(topic, num_articles) called with a positive number.
InitFetch ==
    /\ fetch_pc = "start"
    /\ num_articles \in 1..MaxArticles
    /\ requests = <<>>
    /\ response = None
    /\ cleaned_articles = <<>>
    /\ returned = None
    /\ PipelineStart
    /\ count = num_articles
    /\ ExtractIdle

\* Lines 73-112 once the last response is there.
Finish(resp) ==
    LET raws == ArticlesOf(resp)
        cleaned == IF raws.kind = "raise" THEN raws
                   ELSE Clean(raws.value, <<>>)
    IN  /\ cleaned_articles' =
              IF cleaned.kind = "return" THEN cleaned.value ELSE <<>>
        /\ returned' =
              Except(IF cleaned.kind = "raise" THEN cleaned
                     ELSE Return(Truncate(cleaned.value, num_articles)))
        /\ fetch_pc' = "returned"

\* lines 38-64: the first GET is sent
FetchGet ==
    /\ fetch_pc = "start"
    /\ requests' = <<Pending>>
    /\ fetch_pc' = "get_wait"
    /\ UNCHANGED <<num_articles, response, cleaned_articles, returned>>
    /\ UNCHANGED <<pipeVars, hist, apiVars, count, extractVars>>

\* line 67: a second GET after a status 429, the rest of the call otherwise
AfterGet(status) == IF status = TooManyRequests THEN "sleep" ELSE "finish"

\* line 64 gives a response or raises; lines 67-69, or 73-112
FetchGetDone ==
    /\ fetch_pc = "get_wait"
    /\ \E o \in GetOutcomes :
          /\ requests' = <<RequestTag(o)>>
          /\ IF o.kind = "raise"
             THEN /\ returned' = Except(o)
                  /\ fetch_pc' = "returned"
                  /\ UNCHANGED <<response, cleaned_articles>>
             ELSE /\ response' = o.value
                  /\ IF AfterGet(o.value.status) = "sleep"
                     THEN /\ fetch_pc' = "sleep"
                          /\ UNCHANGED <<cleaned_articles, returned>>
                     ELSE Finish(o.value)
    /\ UNCHANGED num_articles
    /\ UNCHANGED <<pipeVars, hist, apiVars, count, extractVars>>

\* line 69 is over; line 70: the second GET is sent
FetchRetry ==
    /\ fetch_pc = "sleep"
    /\ requests' = Append(requests, Pending)
    /\ fetch_pc' = "retry_wait"
    /\ UNCHANGED <<num_articles, response, cleaned_articles, returned>>
    /\ UNCHANGED <<pipeVars, hist, apiVars, count, extractVars>>

\* Line 70 followed by the test of line 67 again.
FetchRetryDone_Loop ==
    /\ fetch_pc = "retry_wait"
    /\ \E o \in GetOutcomes :
          /\ requests' = [requests EXCEPT ![Len(requests)] = RequestTag(o)]
          /\ IF o.kind = "raise"
             THEN /\ returned' = Except(o)
                  /\ fetch_pc' = "returned"
                  /\ UNCHANGED <<response, cleaned_articles>>
             ELSE /\ response' = o.value
                  /\ IF AfterGet(o.value.status) = "sleep"
                     THEN /\ fetch_pc' = "sleep"
                          /\ UNCHANGED <<cleaned_articles, returned>>
                     ELSE Finish(o.value)
    /\ UNCHANGED num_articles
    /\ UNCHANGED <<pipeVars, hist, apiVars, count, extractVars>>

\* line 70 gives a response or raises; lines 73-112
FetchRetryDone ==
    /\ fetch_pc = "retry_wait"
    /\ \E o \in GetOutcomes :
          /\ requests' = [requests EXCEPT ![Len(requests)] = RequestTag(o)]
          /\ IF o.kind = "raise"
             THEN /\ returned' = Except(o)
                  /\ fetch_pc' = "returned"
                  /\ UNCHANGED <<response, cleaned_articles>>
             ELSE /\ response' = o.value
                  /\ Finish(o.value)
    /\ UNCHANGED num_articles
    /\ UNCHANGED <<pipeVars, hist, apiVars, count, extractVars>>

NextFetch == FetchGet \/ FetchGetDone \/ FetchRetry \/ FetchRetryDone

SpecFetch == InitFetch /\ [][NextFetch]_vars

-----------------------------------------------------------------------------
(* The projection of pipeline.py:77-115 taken on its own, over analysis and *)
(* validation mappings with and without each key it reads                   *)

\* The analysis mappings: a sentiment in some letter case, null or absent;
\* a gist or none.
ProjAnalyses ==
    {[gist |-> <<"gist of", 0>>, sentiment |-> v] :
        v \in {Str("Positive"), Str("negative"), JsonNull}}
        \cup {[sentiment |-> Str("Negative")], [gist |-> <<"gist of", 0>>]}

\* The validation mappings: is_valid true, false or absent; notes or none.
ProjValidations ==
    {[is_valid |-> b, notes |-> <<"model notes">>] : b \in BOOLEAN}
        \cup {[notes |-> <<"model notes">>], [is_valid |-> TRUE]}

\* The state before line 77, with the articles fetched and analysed.
InitProject ==
    /\ pc = "project"
    /\ running = TRUE
    /\ articles \in FetchOutputs \ {<<>>}
    /\ analysis_results \in
          {[k \in DOMAIN articles |-> [article |-> articles[k], analysis |-> f[k]]] :
              f \in [DOMAIN articles -> ProjAnalyses]}
    /\ idx = 1
    /\ final_articles = <<>>
    /\ validated_results_full = <<>>
    /\ inflight = "none"
    /\ events = <<>>
    /\ hist = <<>>
    /\ api_pc = "wait"
    /\ disconnected = FALSE
    /\ forwarded = <<>>
    /\ count = MaxArticles
    /\ FetchIdle
    /\ ExtractIdle

\* One turn of the loop of lines 80-104: the validation of the idx-th
\* analysis arrives and lines 88-103 append the records; line 98 may raise.
ProjectStep ==
    /\ pc = "project"
    /\ idx <= Len(analysis_results)
    /\ \E validation \in ProjValidations :
          LET result == analysis_results[idx]
          IN  /\ validated_results_full' =
                     Append(validated_results_full,
                            [article |-> result.article,
                             analysis |-> result.analysis,
                             validation |-> validation])
              /\ IF ProjectionRaises(result.analysis)
                 THEN /\ final_articles' = final_articles
                      /\ pc' = "handler"
                 ELSE /\ final_articles' = AppendFinal(final_articles, idx, result, validation)
                      /\ pc' = "project"
    /\ idx' = idx + 1
    /\ UNCHANGED <<articles, analysis_results, running, inflight, events, hist,
                   apiVars, fixedVars>>

\* lines 112-115 after the loop
ProjectResult ==
    /\ pc = "project"
    /\ idx > Len(analysis_results)
    /\ events' = Append(events, ResultEvent(final_articles))
    /\ pc' = "full_result"
    /\ running' = FALSE
    /\ UNCHANGED <<dataVars, inflight, hist, apiVars, fixedVars>>

NextProject == ProjectStep \/ ProjectResult

SpecProject == InitProject /\ [][NextProject]_vars

-----------------------------------------------------------------------------
(* The Structured-Response Extractor and the use LLMValidator makes of it   *)

\* Longest text before and after the JSON object in a model output.
MaxPad == 2

\* A model output is a sequence of tokens: whitespace, prose without braces
\* and backticks, a fence ``` with or without the tag json, a brace, or one
\* "name": literal pair of a JSON object.
WS == <<"ws", "", "">>
PROSE == <<"prose", "", "">>
FENCE == <<"fence", "", "">>
FENCE_JSON == <<"fence", "json", "">>
LB == <<"{", "", "">>
RB == <<"}", "", "">>
Field(name, literal) == <<"field", name, literal>>

\* JSON values: booleans and strings, and the literals that encode them.
Bool(b) == <<"bool", b>>
Literal(v) ==
    IF v[1] = "bool" THEN (IF v[2] THEN "true" ELSE "false")
    ELSE "\"" \o v[2] \o "\""
Value(literal) ==
    CASE literal = "true" -> Bool(TRUE)
      [] literal = "false" -> Bool(FALSE)
      [] OTHER -> Str(SubSeq(literal, 2, Len(literal) - 1))

\* The fields LLMValidator requires, in the order json.dumps writes them.
ValidationFields == {"is_valid", "notes"}
FieldOrder == <<"is_valid", "notes">>

\* json.dumps of a mapping.
json_encode(M) ==
    LET names == SelectSeq(FieldOrder, LAMBDA n : n \in DOMAIN M)
    IN  <<LB>> \o [i \in DOMAIN names |-> Field(names[i], Literal(M[names[i]]))]
             \o <<RB>>

\* The mappings a model writes: is_valid true, false or absent, notes or none.
EmptyMap == [n \in {} |-> n]
Mappings ==
    {[is_valid |-> Bool(b), notes |-> Str("Valid")] : b \in BOOLEAN}
        \cup {[is_valid |-> Bool(b)] : b \in BOOLEAN}
        \cup {[notes |-> Str("Valid")], EmptyMap}

\* What surrounds the object in a model output.
PadTokens == {WS, PROSE, FENCE, FENCE_JSON, LB, RB}
Pads == SeqsUpTo(PadTokens, MaxPad)

\* What a model output has between its pads: an encoded mapping, or nothing.
TextBodies == {json_encode(M) : M \in Mappings} \cup {<<>>}

\* What the extractor gives: the mapping, or one of its two failures.
Extracted(m) == [kind |-> "ok", value |-> m, missing |-> {}]
ParseError == [kind |-> "ParseError", value |-> EmptyMap, missing |-> {}]
SchemaError(names) == [kind |-> "SchemaError", value |-> EmptyMap, missing |-> names]

\* Step 1: the text without the whitespace around it.
RECURSIVE Trim(_)
Trim(t) ==
    IF t = <<>> THEN t
    ELSE IF Head(t) = WS THEN Trim(Tail(t))
    ELSE IF t[Len(t)] = WS THEN Trim(SubSeq(t, 1, Len(t) - 1))
    ELSE t

\* Step 2: the interior of a text wrapped in a fence, with or without tag.
Unfence(t) ==
    IF Len(t) >= 2 /\ t[1][1] = "fence" /\ t[Len(t)] = FENCE
    THEN SubSeq(t, 2, Len(t) - 1)
    ELSE t

\* A JSON parser on a text: whitespace around the object is ignored; the
\* text is one object when it is a brace, pairs with different names, and a
\* brace.
ParseObject(t) ==
    LET u == Trim(t)
        inner == 2..(Len(u) - 1)
    IN  IF /\ Len(u) >= 2
           /\ u[1] = LB
           /\ u[Len(u)] = RB
           /\ \A i \in inner : u[i][1] = "field"
           /\ \A i, j \in inner : u[i][2] = u[j][2] => i = j
        THEN Extracted([n \in {u[i][2] : i \in inner} |->
                           Value(u[CHOOSE i \in inner : u[i][2] = n][3])])
        ELSE ParseError

\* Step 3 without the search for the braces.
ParseLenient_NoFallback(t) == ParseObject(t)

\* Step 3: the text as one object, or else what lies from its first '{' to
\* its last '}'.
ParseLenient(t) ==
    LET whole == ParseObject(t)
        opens == {i \in DOMAIN t : t[i] = LB}
        closes == {i \in DOMAIN t : t[i] = RB}
        first == CHOOSE i \in opens : \A j \in opens : i <= j
        last == CHOOSE i \in closes : \A j \in closes : j <= i
    IN  IF whole.kind = "ok" THEN whole
        ELSE IF opens # {} /\ closes # {} /\ first < last
        THEN ParseObject(SubSeq(t, first, last))
        ELSE ParseError

\* Step 4 accepting any mapping.
CheckFields_None(parsed, fields) == parsed

\* Step 4: a mapping that lacks a required field is a schema error that
\* names the fields it lacks.
CheckFields(parsed, fields) ==
    IF parsed.kind = "ok" /\ fields \ DOMAIN parsed.value # {}
    THEN SchemaError(fields \ DOMAIN parsed.value)
    ELSE parsed

\* The extractor without steps 2 and 3: the trimmed text has to be the object.
extract_Strict(t, fields) == CheckFields(ParseObject(Trim(t)), fields)

\* The extractor, steps 1 to 5.
extract(t, fields) == CheckFields(ParseLenient(Unfence(Trim(t))), fields)

\* The text of the exception an extractor failure is.
FailureText(r) ==
    IF r.kind = "SchemaError" THEN <<"Missing required fields", r.missing>>
    ELSE <<"parse error", {}>>

\* What LLMValidator.validate_analysis makes of a model output: the mapping
\* of the model, or the degraded record.
validation_of(t) ==
    LET r == extract(t, ValidationFields)
    IN  IF r.kind = "ok" THEN r.value
        ELSE [is_valid |-> Bool(FALSE),
              notes |-> <<"Validation failed", "due to error", FailureText(r)>>,
              error |-> FailureText(r)]

\* A model output arrives.
InitExtract ==
    /\ extract_pc = "start"
    /\ \E pre \in Pads, post \in Pads, body \in TextBodies :
          text = pre \o body \o post
    /\ extracted = None
    /\ PipelineStart
    /\ count = 1
    /\ FetchIdle

\* The validator hands the output to the extractor and builds its record.
Extract ==
    /\ extract_pc = "start"
    /\ extracted' = [extract |-> extract(text, ValidationFields),
                     validation |-> validation_of(text)]
    /\ extract_pc' = "done"
    /\ UNCHANGED <<text, pipeVars, hist, apiVars, count, fetchVars>>

NextExtract == Extract

SpecExtract == InitExtract /\ [][NextExtract]_vars

-----------------------------------------------------------------------------
(* Properties *)

EventIndexes(kind) == {i \in DOMAIN events : events[i].event = kind}
CountEvents(kind) == Cardinality(EventIndexes(kind))
StepIndexes(step) == {i \in DOMAIN events : events[i].step = step}

\* run() has been drained: its consumer has seen the end of the sequence.
Exhausted == pc = "done"

\* The history of run() alone, without the client's and the API's entries.
PipeHist == SelectSeq(hist, LAMBDA h : h.t \notin {"disconnect", "seen"})

CallIndexes(what) == {i \in DOMAIN hist : hist[i].t = "call" /\ hist[i].a = what}
Raised == \E i \in DOMAIN hist : hist[i].t = "raise"
FetchReturned ==
    \E i \in DOMAIN hist : hist[i].t = "ret" /\ hist[i].a = "fetch"
FetchedEmpty == FetchReturned /\ articles = <<>>

DegradedAnalysis(analysis) == "error" \in DOMAIN analysis
DegradedValidation(validation) == "error" \in DOMAIN validation

\* C1: a drained run has emitted either exactly one result, no error and a
\* close as its last event, or exactly one error and no result; no error
\* ever follows a result, and the sequence ends with a close or an error.
C1_ResultAndCloseOrOneError ==
    /\ \A i, j \in DOMAIN events :
          (i < j /\ events[i].event = "result") => events[j].event # "error"
    /\ Exhausted =>
          /\ events # <<>>
          /\ LastEvent.event \in {"close", "error"}
          /\ \/ /\ CountEvents("result") = 1
                /\ CountEvents("error") = 0
                /\ LastEvent.event = "close"
             \/ /\ CountEvents("error") = 1
                /\ CountEvents("result") = 0

C1_Witness ==
    /\ Exhausted
    /\ CountEvents("result") = 1
    /\ LastEvent.event = "close"
    /\ \E k \in DOMAIN analysis_results : DegradedAnalysis(analysis_results[k].analysis)

\* C2: after a fetch that returned the empty list the run emits one error
\* event (exactly one once it has ended), no result, no close, no log of
\* step analyze or validate, and it issues no analysis or validation call.
C2_EmptyFetchIsOneError ==
    FetchedEmpty =>
        /\ CountEvents("error") <= 1
        /\ (pc \in {"end", "done"} => CountEvents("error") = 1)
        /\ CountEvents("result") = 0
        /\ CountEvents("close") = 0
        /\ StepIndexes("analyze") = {}
        /\ StepIndexes("validate") = {}
        /\ CallIndexes("analyze") = {}
        /\ CallIndexes("validate") = {}

C2_Witness == FetchedEmpty /\ Exhausted /\ CountEvents("error") = 1

\* C3: a result event carries exactly one entry per fetched article, and
\* is emitted only for a non-empty fetch.
C3_ResultHasOneEntryPerArticle ==
    \A i \in EventIndexes("result") :
        /\ articles # <<>>
        /\ Len(events[i].payload) = Len(articles)

C3_Witness ==
    /\ CountEvents("result") = 1
    /\ Len(articles) > 1
    /\ \E k \in DOMAIN validated_results_full :
          DegradedValidation(validated_results_full[k].validation)
    /\ \E k \in DOMAIN analysis_results :
          DegradedAnalysis(analysis_results[k].analysis)

\* C4: a failed validation gives the record is_valid = FALSE with notes
\* starting "Validation failed" and an error field; it does not end the run:
\* unless an exception is raised, the run validates every article and ends
\* with result and close, and the entry of the failed article has
\* validationPassed = FALSE and a non-empty validationNote.
C4_ValidationFailureDegrades ==
    /\ \A k \in DOMAIN validated_results_full :
          LET v == validated_results_full[k].validation
          IN  DegradedValidation(v) =>
                 /\ v.is_valid = FALSE
                 /\ v.notes # <<>>
                 /\ v.notes[1] = "Validation failed"
                 /\ (~Raised => pc # "handler" /\ CountEvents("error") = 0)
    /\ \A i \in EventIndexes("result") :
          /\ Len(validated_results_full) = Len(articles)
          /\ \A k \in DOMAIN validated_results_full :
                DegradedValidation(validated_results_full[k].validation) =>
                   /\ events[i].payload[k].validationPassed = FALSE
                   /\ events[i].payload[k].validationNote # <<>>
    /\ (Exhausted /\ ~Raised /\ articles # <<>>) =>
          /\ CountEvents("result") = 1
          /\ LastEvent.event = "close"

C4_Witness ==
    /\ Exhausted
    /\ LastEvent.event = "close"
    /\ Len(articles) > 1
    /\ DegradedValidation(validated_results_full[1].validation)
    /\ ~DegradedValidation(validated_results_full[Len(articles)].validation)

\* The entry of history h that precedes entry i.
ErrorCause(h, i) == IF i > 1 THEN h[i - 1] ELSE HSleep

\* C5: a failed analysis gives the record gist "Unable to analyze article",
\* sentiment neutral, with an error field; the run goes on: every article is
\* analysed before validation starts, each validation call receives the
\* article and the (possibly degraded) analysis of its position, and an
\* error event only ever follows an empty fetch or a raised exception.
C5_AnalysisFailureDegrades ==
    LET analyzeCalls == CallIndexes("analyze")
        validateCalls == CallIndexes("validate")
        ph == PipeHist
    IN  /\ \A k \in DOMAIN analysis_results :
              LET a == analysis_results[k].analysis
              IN  DegradedAnalysis(a) =>
                     /\ a.gist = <<"Unable to analyze article", 0>>
                     /\ a.sentiment = Str("neutral")
        /\ StepIndexes("validate") # {} =>
              /\ Len(analysis_results) = Len(articles)
              /\ \A k \in DOMAIN articles : \E c \in analyzeCalls : hist[c].k = k
        /\ \A c \in validateCalls :
              hist[c].arg = <<articles[hist[c].k], analysis_results[hist[c].k].analysis>>
        /\ StepIndexes("done") # {} =>
              \A k \in DOMAIN articles : \E c \in validateCalls : hist[c].k = k
        /\ CountEvents("error") > 0 =>
              \A i \in DOMAIN ph :
                 (ph[i].t = "emit" /\ ph[i].a = "error") =>
                    \/ ErrorCause(ph, i).t = "raise"
                    \/ /\ ErrorCause(ph, i).t = "ret"
                       /\ ErrorCause(ph, i).a = "fetch"
                       /\ articles = <<>>

C5_Witness ==
    /\ CountEvents("result") = 1
    /\ Len(articles) > 1
    /\ DegradedAnalysis(analysis_results[1].analysis)
    /\ ~DegradedAnalysis(analysis_results[Len(articles)].analysis)
    /\ \E c \in CallIndexes("validate") :
          hist[c].k = 1 /\ DegradedAnalysis(hist[c].arg[2])

\* The kinds of the events from the i-th on.
KindsFrom(i) == [j \in 1..(Len(events) - i + 1) |-> events[i + j - 1].event]

IsPrefix(s, t) == Len(s) <= Len(t) /\ \A i \in DOMAIN s : s[i] = t[i]

\* A drained run with a non-empty fetch and no raised exception.
CompleteRun == Exhausted /\ articles # <<>> /\ ~Raised

\* C6 as stated: the run ends with exactly the three events log 'done',
\* result, close, and nothing else follows the 'done' log.
C6_Original ==
    CompleteRun =>
        /\ Cardinality(StepIndexes("done")) = 1
        /\ \A d \in StepIndexes("done") : KindsFrom(d) = <<"log", "result", "close">>

\* C6, amended: the run ends with exactly the four events log 'done',
\* result, full_result, close, in this order; at any moment the events from
\* the 'done' log on are a prefix of these four.
C6_FinalizingEmitsFourEvents ==
    /\ \A d \in StepIndexes("done") :
          IsPrefix(KindsFrom(d), <<"log", "result", "full_result", "close">>)
    /\ CompleteRun =>
          /\ Cardinality(StepIndexes("done")) = 1
          /\ \A d \in StepIndexes("done") :
                KindsFrom(d) = <<"log", "result", "full_result", "close">>

C6_Witness == CompleteRun /\ LastEvent.event = "close" /\ Len(articles) > 1

\* C7: an error event is the last event of the sequence; hence there is at
\* most one, and no close or other event follows it.
C7_ErrorIsTerminal ==
    /\ \A i \in EventIndexes("error") : i = Len(events)
    /\ CountEvents("error") <= 1
    /\ (CountEvents("error") = 1 /\ pc # "end") => Exhausted

C7_Witness ==
    /\ Exhausted
    /\ LastEvent.event = "error"
    /\ StepIndexes("validate") # {}

StepRank(step) ==
    CASE step = "fetch" -> 1
      [] step = "analyze" -> 2
      [] step = "validate" -> 3
      [] OTHER -> 4

\* C8: the log events are ordered by stage (fetch, analyze, validate,
\* done); the calls are ordered likewise, and a validation call is issued
\* only after the analysis call of the last article has returned.
C8_StagesDoNotInterleave ==
    LET fetchLogs == StepIndexes("fetch")
        analyzeLogs == StepIndexes("analyze")
        validateLogs == StepIndexes("validate")
        doneLogs == StepIndexes("done")
        fetchCalls == CallIndexes("fetch")
        analyzeCalls == CallIndexes("analyze")
        validateCalls == CallIndexes("validate")
    IN  /\ \A i \in fetchLogs : \A j \in analyzeLogs \cup validateLogs \cup doneLogs : i < j
        /\ \A i \in analyzeLogs : \A j \in validateLogs \cup doneLogs : i < j
        /\ \A i \in validateLogs : \A j \in doneLogs : i < j
        /\ \A f \in fetchCalls : \A a \in analyzeCalls : f < a
        /\ \A a \in analyzeCalls : \A v \in validateCalls : a < v
        /\ validateCalls # {} =>
              \E r \in DOMAIN hist :
                 /\ hist[r].t = "ret" /\ hist[r].a = "analyze" /\ hist[r].k = Len(articles)
                 /\ \A v \in validateCalls : r < v

C8_Witness ==
    /\ StepIndexes("done") # {}
    /\ Len(articles) > 1
    /\ Cardinality(CallIndexes("validate")) = Len(articles)

\* The per-article log events of a stage, as indexes of the history.
ArticleLogs(stage) ==
    {i \in DOMAIN hist :
        hist[i].t = "emit" /\ hist[i].a = "log" /\ hist[i].b = stage /\ hist[i].k > 0}

\* The history of one stage: its per-article logs, its calls and their ends.
StageHist(stage) ==
    SelectSeq(hist, LAMBDA h : \/ h.a = stage /\ h.t \in {"call", "ret", "raise"}
                               \/ h.t = "emit" /\ h.b = stage /\ h.k > 0)

\* The history of a stage is log 1, call 1, end 1, log 2, call 2, end 2, ...
\* and the k-th call is made for the k-th fetched article.
InFetchOrder(stage) ==
    LET sh == StageHist(stage)
    IN  \A i \in DOMAIN sh :
           /\ sh[i].k = (i + 2) \div 3
           /\ sh[i].k <= Len(articles)
           /\ i % 3 = 1 => sh[i].t = "emit"
           /\ i % 3 = 2 => sh[i].t = "call" /\ sh[i].arg[1] = articles[sh[i].k]
           /\ i % 3 = 0 => sh[i].t \in {"ret", "raise"}

\* C9: in each of the two stages the k-th per-article log carries index k,
\* the k-th call is made for the k-th fetched article right after that
\* article's log, and the log of article k+1 comes after the call of
\* article k has returned.
C9_ArticlesInFetchOrder ==
    /\ InFetchOrder("analyze")
    /\ InFetchOrder("validate")
    /\ \A c \in CallIndexes("validate") :
          hist[c].arg[2] = analysis_results[hist[c].k].analysis

C9_Witness ==
    /\ Cardinality(CallIndexes("validate")) = Len(articles)
    /\ Len(articles) > 1
    /\ Cardinality(ArticleLogs("analyze")) = Len(articles)

ModelCalls == CallIndexes("analyze") \cup CallIndexes("validate")
DisconnectIndexes == {i \in DOMAIN hist : hist[i].t = "disconnect"}
SeenIndexes == {i \in DOMAIN hist : hist[i].t = "seen"}

\* C10 as stated: no analysis or validation call is started after the
\* client has disconnected.
C10_Original ==
    \A d \in DisconnectIndexes : \A c \in ModelCalls : c < d

\* C10, amended: no call is started after event_generator has observed the
\* disconnect, and at most one analysis or validation call is started
\* between the disconnect and its observation.
C10_NoCallAfterObservedDisconnect ==
    /\ \A s \in SeenIndexes :
          \A c \in ModelCalls \cup CallIndexes("fetch") : c < s
    /\ \A d \in DisconnectIndexes :
          Cardinality({c \in ModelCalls : c > d}) <= 1
    /\ api_pc = "broken" => ~running /\ inflight = "none"

C10_Witness ==
    /\ api_pc = "broken"
    /\ \E d \in DisconnectIndexes : \E c \in CallIndexes("validate") : c > d

\* The events of run() that event_generator has dealt with: all of them but
\* one it has not taken from run() yet.
Processed ==
    IF api_pc = "wait" /\ ~running /\ pc # "done" /\ events # <<>>
    THEN SubSeq(events, 1, Len(events) - 1)
    ELSE events

\* C11: while the client is connected, what event_generator has forwarded
\* is the sequence of run()'s events it has dealt with, without the
\* full_result events, in the same order and with the same payloads; it
\* only ever forwards log, result, error and close events.
C11_ForwardedIsFilteredEvents ==
    /\ ~disconnected =>
          forwarded = SelectSeq(Processed, LAMBDA e : e.event # "full_result")
    /\ \A i \in DOMAIN forwarded :
          forwarded[i].event \in {"log", "result", "error", "close"}

C11_Witness ==
    /\ api_pc = "finished"
    /\ ~disconnected
    /\ CountEvents("full_result") = 1
    /\ Len(forwarded) = Len(events) - 1

\* C12: once a call or a step of run() has raised, run() emits nothing but
\* one error event and ends: the exception does not leave the generator.
C12_ExceptionBecomesOneError ==
    Raised =>
        LET ph == PipeHist
            r == CHOOSE i \in DOMAIN ph : ph[i].t = "raise"
        IN  /\ Cardinality({i \in DOMAIN ph : ph[i].t = "raise"}) = 1
            /\ pc \in {"handler", "end", "done"}
            /\ pc = "handler" <=> r = Len(ph)
            /\ pc # "handler" =>
                  /\ Len(ph) = r + 1
                  /\ ph[r + 1].t = "emit" /\ ph[r + 1].a = "error"
                  /\ CountEvents("error") = 1
                  /\ LastEvent.event = "error"

C12_Witness ==
    /\ Exhausted
    /\ LastEvent.event = "error"
    /\ \E i \in DOMAIN hist : hist[i].t = "raise" /\ hist[i].a = "validate"

\* C13: when the result event is emitted for n fetched articles, there has
\* been one fetch call, one analysis call per article and one validation
\* call per article, the k-th validation with the k-th article and its
\* analysis.
C13_OneCallPerArticle ==
    CountEvents("result") > 0 =>
        LET analyzeCalls == CallIndexes("analyze")
            validateCalls == CallIndexes("validate")
        IN  /\ Cardinality(CallIndexes("fetch")) = 1
            /\ Cardinality(analyzeCalls) = Len(articles)
            /\ Cardinality(validateCalls) = Len(articles)
            /\ Len(analysis_results) = Len(articles)
            /\ \A k \in DOMAIN articles :
                  /\ \E c \in analyzeCalls :
                        hist[c].k = k /\ hist[c].arg = <<articles[k]>>
                  /\ \E c \in validateCalls :
                        /\ hist[c].k = k
                        /\ hist[c].arg = <<articles[k], analysis_results[k].analysis>>
                  /\ analysis_results[k].article = articles[k]

C13_Witness ==
    /\ CountEvents("result") = 1
    /\ Len(articles) > 1
    /\ Cardinality(ModelCalls) = Len(articles) + Len(articles)

\* The GET has given a response of this status.
HasStatus(tag, status) == tag[1] = "status" /\ tag[2] = status

FetchDone == fetch_pc = "returned"
ReturnedEmpty == returned.kind = "return" /\ Len(returned.value) = 0

\* C14: fetch_news sends at most two GETs, the second one exactly when the
\* first response has status 429; when the second response has status 429
\* too the call returns the empty list.
C14_RetriesOnceOn429 ==
    /\ Len(requests) <= 2
    /\ Len(requests) = 2 => HasStatus(requests[1], TooManyRequests)
    /\ (FetchDone /\ HasStatus(requests[1], TooManyRequests)) => Len(requests) = 2
    /\ (FetchDone /\ Len(requests) = 2
           /\ HasStatus(requests[2], TooManyRequests)) => ReturnedEmpty

C14_Witness ==
    /\ FetchDone
    /\ Len(requests) = 2
    /\ HasStatus(requests[1], TooManyRequests)
    /\ HasStatus(requests[2], TooManyRequests)
    /\ ReturnedEmpty

\* The last response is a success whose body is a JSON object.
JsonResponse ==
    /\ requests[Len(requests)][1] = "status"
    /\ response.status = 200
    /\ response.body # NotJson

\* The articles of the last response that line 87 does not skip.
KeptArticles ==
    SelectSeq(Get(response.body, "articles", <<>>), LAMBDA a : ~Skipped(a))

\* C15: fetch_news returns a list and never raises; the list is empty when a
\* GET raised, when the last response has no success status, when its body
\* is no JSON or has a status field other than 'ok', and when cleaning an
\* article raised.
C15_FetchNeverRaises ==
    FetchDone =>
        /\ returned.kind = "return"
        /\ requests[Len(requests)][1] = "raise" => ReturnedEmpty
        /\ (requests[Len(requests)][1] = "status" /\ response.status # 200)
              => ReturnedEmpty
        /\ (requests[Len(requests)][1] = "status" /\ response.body = NotJson)
              => ReturnedEmpty
        /\ (JsonResponse /\ Get(response.body, "status", "") # "ok")
              => ReturnedEmpty
        /\ (JsonResponse /\ \E i \in DOMAIN KeptArticles : CleanRaises(KeptArticles[i]))
              => ReturnedEmpty

C15_Witness ==
    /\ FetchDone
    /\ JsonResponse
    /\ Get(response.body, "status", "") = "ok"
    /\ Len(KeptArticles) > 1
    /\ ~CleanRaises(KeptArticles[1])
    /\ CleanRaises(KeptArticles[2])
    /\ ReturnedEmpty

\* C16: fetch_news returns at most num_articles articles; a run with
\* argument count has at most count articles, starts at most count analysis
\* calls and at most count validation calls, and its result has at most
\* count entries.
C16_AtMostCountArticles ==
    /\ (FetchDone /\ returned.kind = "return") => Len(returned.value) <= num_articles
    /\ Len(articles) <= count
    /\ Cardinality(CallIndexes("analyze")) <= count
    /\ Cardinality(CallIndexes("validate")) <= count
    /\ \A i \in EventIndexes("result") : Len(events[i].payload) <= count

C16_Witness ==
    /\ CountEvents("result") = 1
    /\ Len(articles) = count
    /\ \E i \in DOMAIN hist :
          hist[i].t = "ret" /\ hist[i].a = "fetch" /\ hist[i].k > count
    /\ Cardinality(CallIndexes("analyze")) = count
    /\ Cardinality(CallIndexes("validate")) = count

\* fetch_news taken on its own has cut what it collected.
C16_FetchCuts ==
    /\ FetchDone
    /\ Len(cleaned_articles) > num_articles
    /\ returned.kind = "return"
    /\ Len(returned.value) = num_articles

\* C20: the k-th entry of final_articles, which is the payload of the
\* result event, has id k, the title and url of the k-th article, the
\* sentiment of its analysis in lower case ('neutral' when the analysis has
\* none), its gist as summary, and the is_valid (false when the validation
\* has none) and notes of its validation.
C20_EntryProjectsItsRecords ==
    /\ \A k \in DOMAIN final_articles :
          LET entry == final_articles[k]
              analysis == analysis_results[k].analysis
              validation == validated_results_full[k].validation
          IN  /\ entry.id = k
              /\ entry.title = articles[k].title
              /\ entry.url = articles[k].url
              /\ entry.sentiment \in {"positive", "negative", "neutral"}
              /\ IF "sentiment" \in DOMAIN analysis
                 THEN entry.sentiment = LowerText(analysis.sentiment[2])
                 ELSE entry.sentiment = "neutral"
              /\ "gist" \in DOMAIN analysis => entry.summary = analysis.gist
              /\ IF "is_valid" \in DOMAIN validation
                 THEN entry.validationPassed = validation.is_valid
                 ELSE entry.validationPassed = FALSE
              /\ "notes" \in DOMAIN validation =>
                    entry.validationNote = validation.notes
    /\ \A i \in EventIndexes("result") : events[i].payload = final_articles

C20_Witness ==
    /\ CountEvents("result") = 1
    /\ Len(final_articles) = 2
    /\ Get(analysis_results[1].analysis, "sentiment", JsonNull) = Str("Positive")
    /\ final_articles[1].sentiment = "positive"
    /\ "sentiment" \notin DOMAIN analysis_results[2].analysis
    /\ final_articles[2].sentiment = "neutral"
    /\ "is_valid" \notin DOMAIN validated_results_full[2].validation
    /\ ~final_articles[2].validationPassed

\* The mappings that have every field the validator requires.
CompleteMappings == {M \in Mappings : ValidationFields \subseteq DOMAIN M}

ExtractDone == extract_pc = "done"

\* t is the encoding of M inside a fence, with or without the tag json and
\* with any whitespace around the fence and around the object.
FencedFormOf(t, M) ==
    LET u == Trim(t)
    IN  /\ Len(u) >= 2
        /\ u[1] \in {FENCE, FENCE_JSON}
        /\ u[Len(u)] = FENCE
        /\ Trim(SubSeq(u, 2, Len(u) - 1)) = json_encode(M)

\* What lies from the first '{' to the last '}' of t; nothing without them.
BraceSpan(t) ==
    LET opens == {i \in DOMAIN t : t[i] = LB}
        closes == {i \in DOMAIN t : t[i] = RB}
    IN  IF opens = {} \/ closes = {} THEN <<>>
        ELSE SubSeq(t, CHOOSE i \in opens : \A j \in opens : i <= j,
                       CHOOSE i \in closes : \A j \in closes : j <= i)

\* C17: a fenced JSON object that has the required fields is extracted to
\* the mapping its bare encoding is extracted to, which is the mapping
\* itself; the validator's record is then that mapping, not the degraded
\* record.
C17_FencedExtractsLikeBare ==
    ExtractDone =>
        \A M \in CompleteMappings :
           FencedFormOf(text, M) =>
              /\ extracted.extract = extract(json_encode(M), ValidationFields)
              /\ extracted.extract = Extracted(M)
              /\ extracted.validation = M
              /\ "error" \notin DOMAIN extracted.validation

C17_Witness ==
    /\ ExtractDone
    /\ text = <<FENCE_JSON, WS>>
                \o json_encode([is_valid |-> Bool(TRUE), notes |-> Str("Valid")])
                \o <<WS, FENCE>>
    /\ extracted.validation.is_valid = Bool(TRUE)
    /\ extracted.validation.notes = Str("Valid")

\* C18: a JSON object that lacks a required field gives a schema error that
\* names the fields it lacks and carries no mapping; the validator's record
\* is then the degraded one, whatever is_valid the object had.
C18_MissingFieldIsSchemaError ==
    ExtractDone =>
        \A M \in Mappings \ CompleteMappings :
           Trim(text) = json_encode(M) =>
              /\ extracted.extract = SchemaError(ValidationFields \ DOMAIN M)
              /\ extracted.extract.missing # {}
              /\ extracted.extract.value = EmptyMap
              /\ extracted.validation.is_valid = Bool(FALSE)
              /\ SubSeq(extracted.validation.notes, 1, 2)
                    = <<"Validation failed", "due to error">>
              /\ "error" \in DOMAIN extracted.validation
              /\ extracted.validation.error[1] = "Missing required fields"
              /\ extracted.validation.error[2] = ValidationFields \ DOMAIN M

C18_Witness ==
    /\ ExtractDone
    /\ text = json_encode([is_valid |-> Bool(TRUE)])
    /\ extracted.extract = SchemaError({"notes"})
    /\ extracted.validation.is_valid = Bool(FALSE)

\* C19: the encoding of a mapping that has the required fields is extracted
\* to that mapping, also with whitespace around it and with any text around
\* it that leaves it between the first '{' and the last '}'; a text that is
\* no object, fenced or not, and whose span between these braces is no
\* object either, gives a parse error.
C19_ExtractorRoundTrip ==
    ExtractDone =>
        /\ \A M \in CompleteMappings :
              (\/ text = json_encode(M)
               \/ Trim(text) = json_encode(M)
               \/ BraceSpan(text) = json_encode(M))
                 => extracted.extract = Extracted(M)
        /\ (/\ ParseObject(text).kind # "ok"
            /\ ParseObject(Unfence(Trim(text))).kind # "ok"
            /\ ParseObject(BraceSpan(text)).kind # "ok")
              => extracted.extract = ParseError

C19_Witness ==
    /\ ExtractDone
    /\ text = <<PROSE, WS>>
                \o json_encode([is_valid |-> Bool(FALSE), notes |-> Str("Valid")])
                \o <<WS, PROSE>>
    /\ extracted.extract
          = Extracted([is_valid |-> Bool(FALSE), notes |-> Str("Valid")])

\* A text with braces that holds no object.
C19_ParseErrorReached ==
    /\ ExtractDone
    /\ BraceSpan(text) # <<>>
    /\ extracted.extract = ParseError

\* This step starts an external call.
CallStarted == Len(hist') > Len(hist) /\ hist'[Len(hist')].t = "call"

\* C21: run() starts an external call only in a step it takes while its
\* consumer awaits the next event, and a call is in flight only then; two
\* log events have been handed over before the fetch is called; a
\* suspended run() whose consumer asks for nothing more starts no call.
C21_CallsOnlyWhilePulled ==
    /\ [](inflight # "none" => running)
    /\ [](\A c \in CallIndexes("fetch") :
             /\ Len(events) >= 2
             /\ events[1].event = "log" /\ events[2].event = "log"
             /\ Cardinality({i \in 1..c : hist[i].t = "emit"}) = 2)
    /\ [][CallStarted => running /\ running']_vars

C21_Witness ==
    /\ api_pc = "broken"
    /\ ~running
    /\ pc = "analyze_call"
    /\ CallIndexes("fetch") # {}
    /\ CallIndexes("analyze") = {}

\* The external calls of the run with their returns and exceptions, in order.
CallHist ==
    SelectSeq(hist, LAMBDA h : /\ h.t \in {"call", "ret", "raise"}
                               /\ h.a \in {"fetch", "analyze", "validate"})

\* C22: the external calls of a run do not overlap: each call has returned
\* or raised before the next one starts; while the call for an article is
\* in flight, the records of all the articles before it are in the list of
\* its stage.
C22_OneCallInFlight ==
    LET ch == CallHist
    IN  /\ \A i \in DOMAIN ch :
              IF i % 2 = 1
              THEN ch[i].t = "call"
              ELSE /\ ch[i].t \in {"ret", "raise"}
                   /\ ch[i].a = ch[i - 1].a
                   /\ ch[i].a # "fetch" => ch[i].k = ch[i - 1].k
        /\ inflight # "none" <=> Len(ch) % 2 = 1
        /\ inflight # "none" => ch[Len(ch)].a = inflight
        /\ inflight = "analyze" => Len(analysis_results) = idx - 1
        /\ inflight = "validate" =>
              /\ Len(validated_results_full) = idx - 1
              /\ Len(final_articles) = idx - 1
              /\ Len(analysis_results) = Len(articles)

C22_Witness ==
    /\ inflight = "validate"
    /\ idx = 2
    /\ Len(validated_results_full) = 1
    /\ Cardinality(CallIndexes("validate")) = 2

\* event_generator has seen the disconnect and left its loop.
Broken == api_pc = "broken"

\* What event_generator forwards of the events before the one it took last.
ForwardedBeforeLast ==
    SelectSeq(SubSeq(events, 1, Len(events) - 1),
              LAMBDA e : e.event # "full_result")

ForwardedKinds == {forwarded[i].event : i \in DOMAIN forwarded}

\* C23 as stated: once event_generator has seen the disconnect, the event it
\* took last is not forwarded, run() is asked for nothing more, and the
\* forwarded stream has no result, error or close event.
C23_Original ==
    Broken =>
        /\ forwarded = ForwardedBeforeLast
        /\ ~running
        /\ ForwardedKinds \cap {"result", "error", "close"} = {}

\* C23, amended: once event_generator has seen the disconnect, the event it
\* took last is not forwarded, run() is asked for nothing more, and the
\* forwarded stream has no error and no close event; it has the result
\* event only when that was forwarded before the disconnect was seen, the
\* event dropped then being the full_result or the close event.
C23_NothingForwardedAfterDisconnectSeen ==
    Broken =>
        /\ forwarded = ForwardedBeforeLast
        /\ ~running
        /\ inflight = "none"
        /\ hist[Len(hist)] = HSeen
        /\ ForwardedKinds \cap {"error", "close"} = {}
        /\ "result" \in ForwardedKinds =>
              LastEvent.event \in {"full_result", "close"}

C23_Witness ==
    /\ Broken
    /\ LastEvent.event = "close"
    /\ "result" \in ForwardedKinds
    /\ Len(forwarded) = Len(events) - 2

\* The last response is a success with status field 'ok'.
OkResponse == JsonResponse /\ Get(response.body, "status", "") = "ok"

\* C24: for an 'ok' response fetch_news returns the articles of the
\* response that have a title and a description, in the order of the
\* response, cut to num_articles, whatever their other fields are.
C24_ReturnsTitledArticles ==
    (FetchDone /\ OkResponse) =>
        LET kept == KeptArticles
            n == IF Len(kept) < num_articles THEN Len(kept) ELSE num_articles
        IN  /\ returned.kind = "return"
            /\ Len(returned.value) = n
            /\ \A k \in 1..Len(returned.value) :
                  /\ returned.value[k].title = Strip(kept[k].title)
                  /\ returned.value[k].description = Strip(kept[k].description)

\* An 'ok' response whose first article is complete and whose second one
\* has a null content: fetch_news returns no article at all.
C24_Witness ==
    /\ FetchDone
    /\ OkResponse
    /\ Len(KeptArticles) = 2
    /\ ~CleanRaises(KeptArticles[1])
    /\ Get(KeptArticles[2], "content", EmptyTxt) = JsonNull
    /\ num_articles = 2
    /\ ReturnedEmpty

\* C25: every analysis or validation call that is followed by another one
\* has returned, and the delay has been slept right after its return,
\* before the next call starts; no article is analysed twice or validated
\* twice, whatever its call gave.
C25_DelayBetweenModelCalls ==
    LET ph == PipeHist
        calls == {i \in DOMAIN ph :
                     ph[i].t = "call" /\ ph[i].a \in {"analyze", "validate"}}
    IN  /\ \A c \in calls :
              (\E d \in calls : d > c) =>
                 /\ ph[c + 1].t = "ret"
                 /\ ph[c + 1].a = ph[c].a
                 /\ ph[c + 2].t = "sleep"
        /\ \A c, d \in calls :
              (ph[c].a = ph[d].a /\ ph[c].k = ph[d].k) => c = d

C25_Witness ==
    /\ inflight = "validate"
    /\ idx = 1
    /\ Len(articles) > 1
    /\ DegradedAnalysis(analysis_results[Len(articles)].analysis)
    /\ Cardinality(CallIndexes("analyze")) = Len(articles)

====
